---- MODULE Spec2Model ----
(***************************************************************************)
(* Model of the Word -> Elementor converter: the column distributor        *)
(* (json_builder.distribute_elements), the two heading classifiers          *)
(* (heading_detector.HeadingDetector.detect_heading_level and               *)
(* word_processor.detect_heading_level), the table reader                   *)
(* (word_processor.extract_table_data), the document walker                 *)
(* (word_processor.extract_document_structure), the widget builder          *)
(* (json_builder.build_elementor_json) and the usage counters               *)
(* (analytics.Analytics as app.py drives them).                             *)
(*                                                                          *)
(* Python lists are sequences; list positions are 0-based in the source,    *)
(* so the columns are functions over 0..num_columns-1 and At(s, i) reads    *)
(* the element at 0-based position i.  Strings that the code inspects       *)
(* character by character are sequences of one-character strings.           *)
(* Scores are counted in hundredths (0.35 is 35), column widths in          *)
(* hundredths of a percent, success rates in tenths of a percent; the       *)
(* averages of the table reader are IEEE doubles kept bit by bit.           *)
(***************************************************************************)
EXTENDS Integers, Sequences, FiniteSets, Bags, TLC

VARIABLES
    \* distribute_elements
    elements, num_columns, strategy, distributed, idx, col, dpc, dret,
    \* the classifiers: the arguments and the two results
    arg_text, arg_style, hd_ret, wp_ret,
    \* extract_document_structure: the document, then the locals
    doc_body, doc_rels, structure, image_data, image_counter, image_rels,
    wpos, wpc, wret,
    \* build_elementor_json: the two image arguments (the structure, the
    \* column count and the strategy are the arguments it hands on to
    \* distribute_elements), the locals, and the tokens random.choices has
    \* produced
    image_urls, image_info, elementor_columns, widgets, bcol, bitem,
    ids_issued, last_id, bpc, bret,
    \* analytics: the stats file, the session flag of the app, the last rate
    app_opens, files_generated, analytics_tracked, success_rate,
    \* the rest of the session state of app.py, whether the last run of the
    \* script has built the page, and the exception it met
    converted, json_data, uploaded_file, ui_ready, app_error,
    \* extract_table_data: the rows of the table and the result
    table_rows, table_ret

dvars == <<elements, num_columns, strategy, distributed, idx, col, dpc, dret>>

cvars == <<arg_text, arg_style, hd_ret, wp_ret>>

wvars == <<doc_body, doc_rels, structure, image_data, image_counter,
           image_rels, wpos, wpc, wret>>

bvars == <<image_urls, image_info, elementor_columns, widgets, bcol, bitem,
           ids_issued, last_id, bpc, bret>>

avars == <<app_opens, files_generated, analytics_tracked, success_rate,
           converted, json_data, uploaded_file, ui_ready, app_error>>

tvars == <<table_rows, table_ret>>

vars == <<dvars, cvars, wvars, bvars, avars, tvars>>

----------------------------------------------------------------------------
(* Bounds of the explored inputs *)

MaxElems == 5

\* the deepest numbering of the classified texts has MaxDots dots
MaxDots == 6

\* the longest document body, in nodes
MaxNodes == 3

----------------------------------------------------------------------------
(* Generic helpers for Python lists *)

At(s, i) == s[i + 1]

Min2(a, b) == IF a < b THEN a ELSE b

Max2(a, b) == IF a > b THEN a ELSE b

\* faulty variant of Slice: the run starts one element early
SliceOverlap(s, a, b) == SubSeq(s, Max2(a, 1), Min2(b, Len(s)))

\* s[a:b] for 0 <= a, with Python's clamping of the upper end
Slice(s, a, b) == SubSeq(s, a + 1, Min2(b, Len(s)))

SeqsUpTo(S, n) == UNION {[1..k -> S] : k \in 0..n}

----------------------------------------------------------------------------
(* json_builder.distribute_elements *)

None == "None"

ElemTypes == {"h1", "h2", "h3", "p"}

ElemUniverse == {[type |-> t, content |-> "a"] : t \in ElemTypes}

ColumnCounts == 1..3

Strategies == {"auto", "sequential", "balanced"}

StrategyInputs == Strategies \cup {"random"}

\* [[] for _ in range(num_columns)]
EmptyColumns(n) == [c \in 0..(n - 1) |-> <<>>]

\* faulty variant of MinCol: the last of several minimal columns wins
MinColLast(d, n) ==
    CHOOSE c \in 0..(n - 1) :
        /\ \A j \in 0..(n - 1) : Len(d[c]) <= Len(d[j])
        /\ \A j \in (c + 1)..(n - 1) : Len(d[j]) > Len(d[c])

\* min(range(num_columns), key=lambda i: len(distributed[i])):
\* Python's min keeps the first of several minimal items
MinCol(d, n) ==
    CHOOSE c \in 0..(n - 1) :
        /\ \A j \in 0..(n - 1) : Len(d[c]) <= Len(d[j])
        /\ \A j \in 0..(c - 1) : Len(d[j]) > Len(d[c])

\* the column the auto strategy appends an element to
AutoTarget(element, d, n) ==
    IF element.type \in {"h1", "h2"} THEN 0 ELSE MinCol(d, n)

\* faulty variant of SeqCount: the remainder is forgotten
SeqCountNoRemainder(total, n, c) == total \div n

\* elements_per_col + (1 if col < remainder else 0)
SeqCount(total, n, c) ==
    (total \div n) + (IF c < (total % n) THEN 1 ELSE 0)

\* faulty variant of BalancedTarget: the round robin starts at column 1
BalancedTargetShifted(i, n) == (i + 1) % n

\* col_idx = idx % num_columns
BalancedTarget(i, n) == i % n

\* no classifier call in progress
ClassIdle ==
    /\ arg_text = <<>>
    /\ arg_style = <<>>
    /\ hd_ret = <<>>
    /\ wp_ret = None

\* no extract_document_structure call in progress
WalkIdle ==
    /\ doc_body = <<>>
    /\ doc_rels = <<>>
    /\ structure = <<>>
    /\ image_data = <<>>
    /\ image_counter = 1
    /\ image_rels = {}
    /\ wpos = 0
    /\ wpc = "idle"
    /\ wret = None

\* no build_elementor_json call in progress
BuildIdle ==
    /\ image_urls = <<>>
    /\ image_info = <<>>
    /\ elementor_columns = <<>>
    /\ widgets = <<>>
    /\ bcol = 0
    /\ bitem = 0
    /\ ids_issued = 0
    /\ last_id = 0
    /\ bpc = "idle"
    /\ bret = None

\* the app is not running
AnalyticsIdle ==
    /\ app_opens = 0
    /\ files_generated = 0
    /\ analytics_tracked = FALSE
    /\ success_rate = <<>>
    /\ converted = FALSE
    /\ json_data = <<>>
    /\ uploaded_file = None
    /\ ui_ready = FALSE
    /\ app_error = None

\* no extract_table_data call in progress
TableIdle ==
    /\ table_rows = <<>>
    /\ table_ret = <<>>

\* no distribute_elements call in progress
DistIdle ==
    /\ elements = <<>>
    /\ num_columns = 1
    /\ strategy = "auto"
    /\ distributed = None
    /\ idx = 0
    /\ col = 0
    /\ dpc = "idle"
    /\ dret = None

DistStart ==
    /\ elements \in SeqsUpTo(ElemUniverse, MaxElems)
    /\ num_columns \in ColumnCounts
    /\ strategy \in StrategyInputs
    /\ distributed = None
    /\ idx = 0
    /\ col = 0
    /\ dpc = "call"
    /\ dret = None

\* faulty variant of DistributeCall: no early return for a single column
DistributeCallNoShortcut ==
    /\ dpc = "call"
    /\ distributed' = EmptyColumns(num_columns)
    /\ dpc' = CASE strategy = "auto" -> "auto"
                [] strategy = "sequential" -> "sequential"
                [] strategy = "balanced" -> "balanced"
                [] OTHER -> "return"
    /\ UNCHANGED <<elements, num_columns, strategy, idx, col, dret>>
    /\ UNCHANGED <<cvars, wvars, bvars, avars, tvars>>

\* lines 28-33, 48, 59: the single-column return, or the allocation of the
\* columns and the choice of the branch
DistributeCall ==
    /\ dpc = "call"
    /\ IF num_columns = 1
       THEN /\ dret' = [c \in {0} |-> elements]
            /\ dpc' = "done"
            /\ UNCHANGED distributed
       ELSE /\ distributed' = EmptyColumns(num_columns)
            /\ dpc' = CASE strategy = "auto" -> "auto"
                        [] strategy = "sequential" -> "sequential"
                        [] strategy = "balanced" -> "balanced"
                        [] OTHER -> "return"
            /\ UNCHANGED dret
    /\ UNCHANGED <<elements, num_columns, strategy, idx, col>>
    /\ UNCHANGED <<cvars, wvars, bvars, avars, tvars>>

\* lines 37-46: one iteration of the auto loop
AutoStep ==
    /\ dpc = "auto"
    /\ idx < Len(elements)
    /\ LET element == At(elements, idx)
           target == AutoTarget(element, distributed, num_columns)
       IN distributed' =
              [distributed EXCEPT ![target] = Append(@, element)]
    /\ idx' = idx + 1
    /\ UNCHANGED <<elements, num_columns, strategy, col, dpc, dret>>
    /\ UNCHANGED <<cvars, wvars, bvars, avars, tvars>>

\* lines 54-57: one iteration of the sequential loop
SequentialStep ==
    /\ dpc = "sequential"
    /\ col < num_columns
    /\ LET count == SeqCount(Len(elements), num_columns, col)
       IN /\ distributed' =
                 [distributed EXCEPT ![col] = Slice(elements, idx, idx + count)]
          /\ idx' = idx + count
    /\ col' = col + 1
    /\ UNCHANGED <<elements, num_columns, strategy, dpc, dret>>
    /\ UNCHANGED <<cvars, wvars, bvars, avars, tvars>>

\* lines 61-63: one iteration of the balanced loop
BalancedStep ==
    /\ dpc = "balanced"
    /\ idx < Len(elements)
    /\ LET element == At(elements, idx)
           col_idx == BalancedTarget(idx, num_columns)
       IN distributed' =
              [distributed EXCEPT ![col_idx] = Append(@, element)]
    /\ idx' = idx + 1
    /\ UNCHANGED <<elements, num_columns, strategy, col, dpc, dret>>
    /\ UNCHANGED <<cvars, wvars, bvars, avars, tvars>>

\* the loop of the chosen branch has run to its end
LoopOver ==
    CASE dpc \in {"auto", "balanced"} -> idx = Len(elements)
      [] dpc = "sequential" -> col = num_columns
      [] dpc = "return" -> TRUE
      [] OTHER -> FALSE

\* line 65
DistributeReturn ==
    /\ LoopOver
    /\ dret' = distributed
    /\ dpc' = "done"
    /\ UNCHANGED <<elements, num_columns, strategy, distributed, idx, col>>
    /\ UNCHANGED <<cvars, wvars, bvars, avars, tvars>>

DistNext ==
    \/ DistributeCall
    \/ AutoStep
    \/ SequentialStep
    \/ BalancedStep
    \/ DistributeReturn

DistInit ==
    DistStart /\ ClassIdle /\ WalkIdle /\ BuildIdle /\ AnalyticsIdle /\ TableIdle

SpecDist == DistInit /\ [][DistNext]_vars

----------------------------------------------------------------------------
(* Strings as sequences of characters, and the str/re operations the      *)
(* classifiers use                                                         *)

\* the characters str.strip() removes and \s matches
Whitespace == {" ", "\t", "\n"}

Digits == {"0", "1", "2", "3", "4", "5", "6", "7", "8", "9"}

UpperLetters == <<"A", "B", "C", "D", "E", "F", "G", "H", "I", "J", "K", "L", "M", "N", "O", "P", "Q", "R", "S", "T", "U", "V", "W", "X", "Y", "Z", "É", "È">>

LowerLetters == <<"a", "b", "c", "d", "e", "f", "g", "h", "i", "j", "k", "l", "m", "n", "o", "p", "q", "r", "s", "t", "u", "v", "w", "x", "y", "z", "é", "è">>

UpperSet == {UpperLetters[i] : i \in DOMAIN UpperLetters}

LowerSet == {LowerLetters[i] : i \in DOMAIN LowerLetters}

\* str.lower() on one character
LowerCh(c) ==
    IF c \in UpperSet
    THEN LowerLetters[CHOOSE i \in DOMAIN UpperLetters : UpperLetters[i] = c]
    ELSE c

\* str.lower()
Lower(s) == [i \in DOMAIN s |-> LowerCh(s[i])]

RECURSIVE FirstNotIn(_, _, _)
\* the first position >= i of s whose character is outside S (Len(s)+1 if none)
FirstNotIn(s, i, S) ==
    IF i > Len(s) \/ s[i] \notin S THEN i ELSE FirstNotIn(s, i + 1, S)

RECURSIVE LastNotIn(_, _, _)
\* the last position <= i of s whose character is outside S (0 if none)
LastNotIn(s, i, S) ==
    IF i < 1 \/ s[i] \notin S THEN i ELSE LastNotIn(s, i - 1, S)

\* str.strip()
Strip(s) == SubSeq(s, FirstNotIn(s, 1, Whitespace), LastNotIn(s, Len(s), Whitespace))

\* str.startswith(p)
StartsWith(s, p) == Len(s) >= Len(p) /\ SubSeq(s, 1, Len(p)) = p

\* str.endswith((c1, c2, ...)) for one-character suffixes
EndsWithAny(s, S) == Len(s) > 0 /\ s[Len(s)] \in S

\* sub in s
Contains(s, sub) ==
    \E i \in 1..(Len(s) - Len(sub) + 1) :
        /\ s[i] = sub[1]
        /\ SubSeq(s, i, i + Len(sub) - 1) = sub

\* str.isupper(): at least one cased character and no lowercase one
IsUpper(s) ==
    /\ \E i \in DOMAIN s : s[i] \in UpperSet
    /\ \A i \in DOMAIN s : s[i] \notin LowerSet

\* len(str.split())
WordCount(s) ==
    Cardinality({i \in DOMAIN s :
                    s[i] \notin Whitespace /\ (i = 1 \/ s[i - 1] \in Whitespace)})

RECURSIVE NumGroups(_, _, _)
\* (\.\d+)* from position i on, k groups taken so far: the position after
\* the last group and the number of groups
NumGroups(s, i, k) ==
    IF i + 1 <= Len(s) /\ s[i] = "." /\ s[i + 1] \in Digits
    THEN NumGroups(s, FirstNotIn(s, i + 1, Digits), k + 1)
    ELSE [end |-> i, dots |-> k]

\* re.match(r'^(\d+(\.\d+)*)\s+', s): whether it matches, and the number of
\* dots in the match
NumberedMatch(s) ==
    IF Len(s) > 0 /\ s[1] \in Digits
    THEN LET g == NumGroups(s, FirstNotIn(s, 1, Digits), 0)
         IN [matched |-> g.end <= Len(s) /\ s[g.end] \in Whitespace,
             dots |-> g.dots]
    ELSE [matched |-> FALSE, dots |-> 0]

ChapterWords == {<<"c", "h", "a", "p">>, <<"c", "h", "a", "p", "i", "t", "r", "e">>, <<"c", "h", "a", "p", "t", "e", "r">>}

\* [IVX\d] under re.IGNORECASE
ChapterNumerals == Digits \cup {"I", "V", "X", "i", "v", "x"}

\* re.match(r'^(CHAP|Chapitre|Chapter)\s+[IVX\d]+', s, re.IGNORECASE)
ChapterMatch(s) ==
    \E w \in ChapterWords :
        /\ StartsWith(Lower(SubSeq(s, 1, Min2(Len(w), Len(s)))), w)
        /\ LET i == Len(w) + 1
               j == FirstNotIn(s, i, Whitespace)
           IN j > i /\ j <= Len(s) /\ s[j] \in ChapterNumerals

----------------------------------------------------------------------------
(* heading_detector.HeadingDetector *)

MAX_H1_LENGTH == 100

MAX_H2_LENGTH == 80

MAX_HEADING_LENGTH == 120

SECTION_KEYWORDS == {
    <<"i", "n", "t", "r", "o", "d", "u", "c", "t", "i", "o", "n">>,
    <<"c", "o", "n", "c", "l", "u", "s", "i", "o", "n">>,
    <<"c", "o", "n", "t", "e", "x", "t", "e">>,
    <<"d", "é", "f", "i", "n", "i", "t", "i", "o", "n">>,
    <<"e", "x", "e", "m", "p", "l", "e">>,
    <<"c", "o", "m", "p", "a", "r", "a", "i", "s", "o", "n">>,
    <<"a", "n", "a", "l", "y", "s", "e">>,
    <<"s", "y", "n", "t", "h", "è", "s", "e">>,
    <<"r", "é", "s", "u", "m", "é">>,
    <<"p", "o", "u", "r", "q", "u", "o", "i">>,
    <<"c", "o", "m", "m", "e", "n", "t">>,
    <<"q", "u", "o", "i">>,
    <<"q", "u", "'", "e", "s", "t", "-", "c", "e">>}

Levels == <<"h1", "h2", "h3", "h4", "h5", "h6">>

\* f'h{min(depth + 1, 6)}'
LevelOfDepth(depth) == Levels[Min2(depth + 1, 6)]

TerminalPunctuation == {".", "!", "?", ";", ","}

\* faulty variant of OrLevel: a proposal replaces the level already found
OrLevelOverride(detected_level, proposal) == proposal

\* detected_level after a criterion that only proposes a level
OrLevel(detected_level, proposal) ==
    IF detected_level = None THEN proposal ELSE detected_level

\* faulty variant of Decide: a confidence of 0.35 already makes a heading
DecideAtThreshold(numbered, detected_level, score) ==
    LET confidence == Min2(score, 100)
    IN IF numbered /\ detected_level # None
       THEN [kind |-> detected_level, confidence |-> Max2(confidence, 50)]
       ELSE IF confidence >= 35
            THEN [kind |-> OrLevel(detected_level, "h3"),
                  confidence |-> confidence]
            ELSE [kind |-> "p", confidence |-> confidence]

\* lines 109-120: the clamp and the decision
Decide(numbered, detected_level, score) ==
    LET confidence == Min2(score, 100)
    IN IF numbered /\ detected_level # None
       THEN [kind |-> detected_level, confidence |-> Max2(confidence, 50)]
       ELSE IF confidence > 35
            THEN [kind |-> OrLevel(detected_level, "h3"),
                  confidence |-> confidence]
            ELSE [kind |-> "p", confidence |-> confidence]

\* faulty variant of LengthCriterion: the tier of 80 is tried before the
\* tier of 100
LengthCriterionTier80First(text_length) ==
    IF text_length <= 50
    THEN [score |-> 30, level |-> "h2"]
    ELSE IF text_length <= MAX_H2_LENGTH
         THEN [score |-> 15, level |-> "h3"]
         ELSE IF text_length <= MAX_H1_LENGTH
              THEN [score |-> 20, level |-> None]
              ELSE IF text_length <= MAX_HEADING_LENGTH
                   THEN [score |-> 5, level |-> None]
                   ELSE [score |-> 0, level |-> None]

\* lines 64-79: the score and the level proposed by the length criterion
LengthCriterion(text_length) ==
    IF text_length <= MAX_H1_LENGTH
    THEN IF text_length <= 50
         THEN [score |-> 30, level |-> "h2"]
         ELSE [score |-> 20, level |-> None]
    ELSE IF text_length <= MAX_H2_LENGTH
         THEN [score |-> 15, level |-> "h3"]
         ELSE IF text_length <= MAX_HEADING_LENGTH
              THEN [score |-> 5, level |-> None]
              ELSE [score |-> 0, level |-> None]

\* lines 42-120
HD_detect_heading_level(raw) ==
    LET text == Strip(raw)
    IN IF text = <<>>
       THEN [kind |-> "p", confidence |-> 0]
       ELSE
         LET numbered_match == NumberedMatch(text)
             \* criterion 1
             level1 == IF numbered_match.matched
                       THEN LevelOfDepth(numbered_match.dots) ELSE None
             score1 == IF numbered_match.matched THEN 90 ELSE 0
             \* criterion 2
             chapter == ChapterMatch(text)
             level2 == IF chapter THEN "h1" ELSE level1
             score2 == score1 + (IF chapter THEN 80 ELSE 0)
             \* criterion 3
             len3   == LengthCriterion(Len(text))
             level3 == IF len3.level # None
                       THEN OrLevel(level2, len3.level) ELSE level2
             score3 == score2 + len3.score
             \* criterion 4
             score4 == IF ~EndsWithAny(text, TerminalPunctuation)
                       THEN score3 + 20 ELSE score3 - 30
             \* criterion 5
             text_lower == Lower(text)
             score5 == score4 +
                       (IF \E keyword \in SECTION_KEYWORDS :
                              Contains(text_lower, keyword)
                        THEN 15 ELSE 0)
             \* criterion 6
             score6 == score5 + (IF text[1] \in UpperSet THEN 10 ELSE 0)
             \* criterion 7
             allcaps == IsUpper(text) /\ Len(text) < 80
             score7 == score6 + (IF allcaps THEN 40 ELSE 0)
             level7 == IF allcaps THEN OrLevel(level3, "h2") ELSE level3
             \* criterion 8
             question == EndsWithAny(text, {"?"})
             score8 == score7 + (IF question THEN 15 ELSE 0)
             level8 == IF question THEN OrLevel(level7, "h3") ELSE level7
         IN Decide(numbered_match.matched, level8, score8)

----------------------------------------------------------------------------
(* word_processor.detect_heading_level *)

\* lines 25-36: the level a Word style name gives, None if it gives none
StyleLevel(style_name) ==
    CASE Contains(style_name, <<"H", "e", "a", "d", "i", "n", "g", " ", "1">>) \/ Contains(style_name, <<"T", "i", "t", "l", "e">>) -> "h1"
      [] Contains(style_name, <<"H", "e", "a", "d", "i", "n", "g", " ", "2">>) -> "h2"
      [] Contains(style_name, <<"H", "e", "a", "d", "i", "n", "g", " ", "3">>) -> "h3"
      [] Contains(style_name, <<"H", "e", "a", "d", "i", "n", "g", " ", "4">>) -> "h4"
      [] Contains(style_name, <<"H", "e", "a", "d", "i", "n", "g", " ", "5">>) -> "h5"
      [] Contains(style_name, <<"H", "e", "a", "d", "i", "n", "g", " ", "6">>) -> "h6"
      [] OTHER -> None

\* text[0] of an empty string
IndexError == "IndexError"

\* faulty variant of WP_detect_heading_level: the numbering is looked at
\* before the Word style
WP_numbering_first(raw, style_name) ==
    LET text == Strip(raw)
        num_pattern == NumberedMatch(text)
    IN IF num_pattern.matched
       THEN LevelOfDepth(num_pattern.dots)
       ELSE IF StyleLevel(style_name) # None
       THEN StyleLevel(style_name)
       ELSE "p"

\* lines 22-57
WP_detect_heading_level(raw, style_name) ==
    LET text == Strip(raw)
        num_pattern == NumberedMatch(text)
    IN IF StyleLevel(style_name) # None
       THEN StyleLevel(style_name)
       ELSE IF num_pattern.matched
       THEN LevelOfDepth(num_pattern.dots)
       ELSE IF /\ Len(text) < 100
               /\ ~EndsWithAny(text, {".", "!", "?", ";", ":"})
               /\ IsUpper(text)
       THEN "h2"
       ELSE IF /\ Len(text) < 100
               /\ ~EndsWithAny(text, {".", "!", "?", ";", ":"})
               /\ WordCount(text) <= 12
               /\ text = <<>>
       THEN IndexError
       ELSE IF /\ Len(text) < 100
               /\ ~EndsWithAny(text, {".", "!", "?", ";", ":"})
               /\ WordCount(text) <= 12
               /\ text[1] \in UpperSet
       THEN "h3"
       ELSE "p"

----------------------------------------------------------------------------
(* The classifier calls: the texts and style names they are run on *)

RECURSIVE DotGroups(_)
\* k groups ".3"
DotGroups(k) == IF k = 0 THEN <<>> ELSE <<".", "3">> \o DotGroups(k - 1)

\* "12", "12.3", "12.3.3", ...
Numbering(k) == <<"1", "2">> \o DotGroups(k)

Numberings == {<<>>} \cup {Numbering(k) : k \in 0..MaxDots}

Leads == {<<>>, <<" ">>}

Separators == {<<>>, <<" ">>}

Words == {<<>>, <<"T", "I", "T", "R", "E">>, <<"T", "i", "t", "r", "e">>, <<"e", "x", "e", "m", "p", "l", "e">>, <<"C", "H", "A", "P", " ", "I", "I">>, <<"c", "h", "a", "p", "i", "t", "r", "e", " ", "x">>, <<"I", "n", "t", "r", "o", "d", "u", "c", "t", "i", "o", "n">>}

Endings == {<<>>, <<".">>, <<"?">>, <<":">>, <<",">>}

\* the lengths the texts are padded to (0: no padding)
PadLengths == {0, 50, 51, 79, 80, 100, 101, 120, 121}

PadLetters == {"z", "Z"}

\* body, padded with the letter up to length n, then ending
Padded(body, ending, letter, n) ==
    body \o [i \in 1..(n - Len(body) - Len(ending)) |-> letter] \o ending

Texts ==
    {lead \o Padded(num \o sep \o word, ending, letter, n) :
        lead \in Leads, num \in Numberings, sep \in Separators,
        word \in Words, ending \in Endings, letter \in PadLetters,
        n \in PadLengths}

StyleNames == {<<"N", "o", "r", "m", "a", "l">>, <<"H", "e", "a", "d", "i", "n", "g", " ", "1">>, <<"H", "e", "a", "d", "i", "n", "g", " ", "2">>, <<"H", "e", "a", "d", "i", "n", "g", " ", "3">>, <<"H", "e", "a", "d", "i", "n", "g", " ", "4">>, <<"H", "e", "a", "d", "i", "n", "g", " ", "5">>, <<"H", "e", "a", "d", "i", "n", "g", " ", "6">>, <<"T", "i", "t", "l", "e">>, <<"L", "i", "s", "t", " ", "P", "a", "r", "a", "g", "r", "a", "p", "h">>}

HDStart ==
    /\ arg_text \in Texts
    /\ arg_style = <<>>
    /\ hd_ret = <<>>
    /\ wp_ret = None

\* HeadingDetector.detect_heading_level(text): the returned tuple
HDCall ==
    /\ hd_ret = <<>>
    /\ LET r == HD_detect_heading_level(arg_text)
       IN hd_ret' = <<r.kind, r.confidence>>
    /\ UNCHANGED <<arg_text, arg_style, wp_ret>>
    /\ UNCHANGED <<dvars, wvars, bvars, avars, tvars>>

HDInit ==
    HDStart /\ DistIdle /\ WalkIdle /\ BuildIdle /\ AnalyticsIdle /\ TableIdle

HDNext == HDCall

SpecHD == HDInit /\ [][HDNext]_vars

WPStart ==
    /\ arg_text \in Texts
    /\ arg_style \in StyleNames
    /\ hd_ret = <<>>
    /\ wp_ret = None

\* word_processor.detect_heading_level(text, style_name)
WPCall ==
    /\ wp_ret = None
    /\ wp_ret' = WP_detect_heading_level(arg_text, arg_style)
    /\ UNCHANGED <<arg_text, arg_style, hd_ret>>
    /\ UNCHANGED <<dvars, wvars, bvars, avars, tvars>>

WPInit ==
    WPStart /\ DistIdle /\ WalkIdle /\ BuildIdle /\ AnalyticsIdle /\ TableIdle

WPNext == WPCall

SpecWP == WPInit /\ [][WPNext]_vars

----------------------------------------------------------------------------
(* word_processor.extract_table_data *)

RECURSIVE SumLen(_)
\* sum(len(cell) for cell in row)
SumLen(row) ==
    IF row = <<>> THEN 0 ELSE Len(row[1]) + SumLen(Tail(row))

\* Python floats are IEEE 754 doubles of 53 significant bits.  A positive
\* double is kept as [e, m]: m is the list of its significand bits, first
\* bit 1, and its value is (m read as a binary number) * 2^(e - 52).
MantissaBits == 53

\* the double 0.0
FZero == [e |-> 0, m |-> <<>>]

RECURSIVE Pow2Mod(_, _)
\* 2^k mod n, by squaring
Pow2Mod(k, n) ==
    IF k = 0 THEN 1 % n
    ELSE LET h == Pow2Mod(k \div 2, n)
         IN (h * h * (IF k % 2 = 1 THEN 2 ELSE 1)) % n

\* the remainder the long division of r by n, r < n, is left with after k
\* quotient bits
DivRem(r, n, k) == (r * Pow2Mod(k, n)) % n

\* the first k quotient bits of the long division of r by n, for r < n
DivBits(r, n, k) ==
    [i \in 1..k |-> IF 2 * DivRem(r, n, i - 1) >= n THEN 1 ELSE 0]

\* the bit list plus one, of the same length (all ones wrap to all zeros)
Increment(bits) ==
    LET zeros == {i \in DOMAIN bits : bits[i] = 0}
        last == IF zeros = {} THEN 0
                ELSE CHOOSE i \in zeros : \A j \in zeros : j <= i
    IN [i \in DOMAIN bits |->
           IF i < last THEN bits[i] ELSE IF i = last THEN 1 ELSE 0]

\* round to nearest, ties to even: bits are at least MantissaBits + 1
\* leading bits of the exact value, sticky tells whether anything non-zero
\* follows them, e is the exponent of the first bit
RoundNearestEven(e, bits, sticky) ==
    LET kept == SubSeq(bits, 1, MantissaBits)
        guard == bits[MantissaBits + 1]
        rest == sticky \/ \E i \in (MantissaBits + 2)..Len(bits) : bits[i] = 1
        up == guard = 1 /\ (rest \/ kept[MantissaBits] = 1)
        inc == Increment(kept)
    IN IF ~up THEN [e |-> e, m |-> kept]
       ELSE IF inc[1] = 1 THEN [e |-> e, m |-> inc]
       ELSE [e |-> e + 1, m |-> <<1>> \o SubSeq(inc, 2, MantissaBits)]

RECURSIVE Normalise(_, _, _)
\* a / n as a' / n' * 2^e with 1 <= a' / n' < 2
Normalise(a, n, e) ==
    IF a < n THEN Normalise(2 * a, n, e - 1)
    ELSE IF a >= 2 * n THEN Normalise(a, 2 * n, e + 1)
    ELSE [a |-> a, n |-> n, e |-> e]

\* the double a / n of two ints, n > 0 (int.__truediv__, correctly rounded)
FDiv(a, n) ==
    IF a = 0 THEN FZero
    ELSE LET s == Normalise(a, n, 0)
             bits == <<1>> \o DivBits(s.a - s.n, s.n, MantissaBits)
             rem == DivRem(s.a - s.n, s.n, MantissaBits)
         IN RoundNearestEven(s.e, bits, rem # 0)

\* the carry that reaches position i of the sum of the bit lists x and y
CarryInto(x, y, i) ==
    \E j \in (i + 1)..Len(x) :
        /\ x[j] + y[j] = 2
        /\ \A k \in (i + 1)..(j - 1) : x[k] + y[k] = 1

\* the sum of two bit lists of equal length, one bit longer
AddBits(x, y) ==
    [i \in 1..(Len(x) + 1) |->
        IF i = 1 THEN (IF CarryInto(x, y, 0) THEN 1 ELSE 0)
        ELSE (x[i - 1] + y[i - 1]
                 + (IF CarryInto(x, y, i - 1) THEN 1 ELSE 0)) % 2]

\* the double x * 1.5: the exact product is x + x / 2, whose bits are
\* those of m0 + 0m, and it is rounded once
FMulOneAndHalf(x) ==
    IF x = FZero THEN FZero
    ELSE LET total == AddBits(x.m \o <<0>>, <<0>> \o x.m)
         IN IF total[1] = 1
            THEN RoundNearestEven(x.e + 1, total, FALSE)
            ELSE RoundNearestEven(x.e, Tail(total), FALSE)

\* x < y for two bit lists of equal length
BitsLess(x, y) ==
    \E i \in DOMAIN x :
        /\ x[i] < y[i]
        /\ \A j \in 1..(i - 1) : x[j] = y[j]

\* x < y for two doubles that are positive or 0.0
FLess(x, y) ==
    IF y = FZero THEN FALSE
    ELSE IF x = FZero THEN TRUE
    ELSE \/ x.e < y.e
         \/ x.e = y.e /\ BitsLess(x.m, y.m)

\* lines 74-80
HasHeader(rows_data) ==
    IF Len(rows_data) > 1
    THEN LET first == rows_data[1]
             second == rows_data[2]
             first_row_avg == IF first # <<>>
                              THEN FDiv(SumLen(first), Len(first)) ELSE FZero
             second_row_avg == IF second # <<>>
                               THEN FDiv(SumLen(second), Len(second))
                               ELSE FZero
         IN /\ FLess(FZero, first_row_avg)
            /\ FLess(first_row_avg, FMulOneAndHalf(second_row_avg))
    ELSE FALSE

\* lines 65-87; table is the rows of cell texts of the Word table
extract_table_data(table) ==
    LET rows_data == [r \in DOMAIN table |->
                         [c \in DOMAIN table[r] |-> Strip(table[r][c])]]
    IN [rows |-> rows_data,
        num_rows |-> Len(rows_data),
        num_cols |-> IF rows_data # <<>> THEN Len(rows_data[1]) ELSE 0,
        has_header |-> HasHeader(rows_data)]

\* the longest row of the explored tables, in cells
MaxCells == 5

\* the cell texts of the explored tables, before stripping
CellTexts == {<<>>, <<"a", " ">>}

\* the rows of the explored tables
TableRows == SeqsUpTo(CellTexts, MaxCells)

\* a call of extract_table_data on a table of up to two rows
TableStart ==
    /\ table_rows \in SeqsUpTo(TableRows, 2)
    /\ table_ret = <<>>

\* lines 60-87
TableCall ==
    /\ table_ret = <<>>
    /\ table_ret' = <<extract_table_data(table_rows)>>
    /\ UNCHANGED table_rows
    /\ UNCHANGED <<dvars, cvars, wvars, bvars, avars>>

TableInit ==
    TableStart /\ DistIdle /\ ClassIdle /\ WalkIdle /\ BuildIdle /\ AnalyticsIdle

TableNext == TableCall

SpecTable == TableInit /\ [][TableNext]_vars

----------------------------------------------------------------------------
(* word_processor.extract_document_structure *)

\* the relationship ids of the explored documents
RelIds == {"rId1", "rId2", "rId3"}

\* a relationship: whether "image" is in its target_ref, whether its blob
\* can be read and opened as an image, and what PIL then reports (format is
\* None when PIL cannot tell it)
RelTables ==
    {[r \in RelIds |->
         CASE r = "rId1" -> [is_image |-> TRUE, decodable |-> d1,
                             format |-> "JPEG", width |-> 640, height |-> 480]
           [] r = "rId2" -> [is_image |-> TRUE, decodable |-> d2,
                             format |-> None, width |-> 10, height |-> 20]
           [] OTHER -> [is_image |-> i3, decodable |-> TRUE,
                        format |-> "PNG", width |-> 1, height |-> 1]] :
        d1 \in BOOLEAN, d2 \in BOOLEAN, i3 \in BOOLEAN}

\* a paragraph node: whether it holds a pic:pic, the values of its first
\* r:embed and r:link attributes (None if absent), its text and style name
Para(pic, embed, link, txt, style) ==
    [kind |-> "CT_P", pic |-> pic, embed |-> embed, link |-> link,
     text |-> txt, style |-> style]

\* a table node with its rows of cell texts
Tbl(rows) == [kind |-> "CT_Tbl", rows |-> rows]

\* a body node that is neither a table nor a paragraph
SectPr == [kind |-> "CT_SectPr"]

NodeUniverse == {
    Tbl(<<<<<<"N", "o", "m">>, <<"A", "g", "e">>>>, <<<<"U", "n", "e", " ", "l", "o", "n", "g", "u", "e", " ", "c", "e", "l", "l", "u", "l", "e", " ">>, <<"3", "0">>>>>>),
    SectPr,
    Para(FALSE, None, None, <<>>, None),
    Para(FALSE, None, None, <<"T", "i", "t", "r", "e">>, <<"H", "e", "a", "d", "i", "n", "g", " ", "2">>),
    Para(FALSE, None, None, <<"1", ".", "2", " ", "z", ".">>, None),
    Para(TRUE, "rId1", None, <<" ">>, None),
    Para(TRUE, "rId1", None, <<"T", "i", "t", "r", "e">>, <<"N", "o", "r", "m", "a", "l">>),
    Para(TRUE, "rId2", "rId1", <<>>, None),
    Para(TRUE, "rId3", None, <<"T", "i", "t", "r", "e">>, None)}

\* faulty variant of ImageRefId: the counter is left out of the id
ImageRefIdFixed(n) == <<"__IMAGE_", 1, "__">>

\* f"__IMAGE_{image_counter}__"
ImageRefId(n) == <<"__IMAGE_", n, "__">>

\* faulty variant of Del: the relationship stays in the pool
DelNothing(pool, rel_id) == pool

\* del image_rels[rel_id], line 157
Del(pool, rel_id) == pool \ {rel_id}

\* faulty variant of Extractable: an image that cannot be decoded is taken
ExtractableUndecoded(rel_id, pool, rels) ==
    /\ rel_id # None
    /\ rel_id # ""
    /\ rel_id \in pool

\* lines 131-139: the relationship id yields an image
Extractable(rel_id, pool, rels) ==
    /\ rel_id # None
    /\ rel_id # ""
    /\ rel_id \in pool
    /\ rels[rel_id].decodable

\* lines 124-163: the relationship id whose image the paragraph yields,
\* r:embed tried before r:link; None if it yields no image
ImageOf(para, pool, rels) ==
    IF ~para.pic THEN None
    ELSE IF Extractable(para.embed, pool, rels) THEN para.embed
    ELSE IF Extractable(para.link, pool, rels) THEN para.link
    ELSE None

\* faulty variant of ImageRecord: the position is taken after the append
ImageRecordPositionAfter(rel_id, rels, position) ==
    [data |-> rel_id,
     format |-> IF rels[rel_id].format # None THEN rels[rel_id].format
                ELSE "PNG",
     width |-> rels[rel_id].width,
     height |-> rels[rel_id].height,
     position |-> position + 1]

\* lines 139-148: the blob stands for itself by its relationship id
ImageRecord(rel_id, rels, position) ==
    [data |-> rel_id,
     format |-> IF rels[rel_id].format # None THEN rels[rel_id].format
                ELSE "PNG",
     width |-> rels[rel_id].width,
     height |-> rels[rel_id].height,
     position |-> position]

\* lines 150-153
ImageElement(ref_id) == [type |-> "image", ref_id |-> ref_id]

\* lines 169-176
TextElement(txt, style) ==
    LET style_name == IF style # None THEN style ELSE <<"N", "o", "r", "m", "a", "l">>
    IN [type |-> WP_detect_heading_level(txt, style_name),
        content |-> txt,
        style |-> style_name]

\* dict item assignment
DictSet(d, k, v) == [x \in DOMAIN d \cup {k} |-> IF x = k THEN v ELSE d[x]]

\* lines 95-104
WalkStart ==
    /\ doc_body \in SeqsUpTo(NodeUniverse, MaxNodes)
    /\ doc_rels \in RelTables
    /\ structure = <<>>
    /\ image_data = <<>>
    /\ image_counter = 1
    /\ image_rels = {r \in RelIds : doc_rels[r].is_image}
    /\ wpos = 0
    /\ wpc = "loop"
    /\ wret = None

\* the node the loop is at
Looping(kind) ==
    /\ wpc = "loop"
    /\ wpos < Len(doc_body)
    /\ At(doc_body, wpos).kind = kind

\* lines 109-116
WalkTable ==
    /\ Looping("CT_Tbl")
    /\ structure' = Append(structure,
                           [type |-> "table",
                            data |-> extract_table_data(At(doc_body, wpos).rows)])
    /\ wpos' = wpos + 1
    /\ UNCHANGED <<doc_body, doc_rels, image_data, image_counter, image_rels,
                   wpc, wret>>
    /\ UNCHANGED <<dvars, cvars, bvars, avars, tvars>>

\* lines 166-176 for a paragraph without extracted image
WithText(para, s) ==
    LET txt == Strip(para.text)
    IN IF txt # <<>> THEN Append(s, TextElement(txt, para.style)) ELSE s

\* faulty variant of WalkParagraph: the text is handled even when the
\* paragraph has yielded an image
WalkParagraphImageAndText ==
    /\ Looping("CT_P")
    /\ LET para == At(doc_body, wpos)
           rel_id == ImageOf(para, image_rels, doc_rels)
           image_ref_id == ImageRefId(image_counter)
       IN IF rel_id # None
          THEN /\ image_data' = DictSet(image_data, image_ref_id,
                                        ImageRecord(rel_id, doc_rels,
                                                    Len(structure)))
               /\ structure' = WithText(para, Append(structure,
                                                     ImageElement(image_ref_id)))
               /\ image_counter' = image_counter + 1
               /\ image_rels' = Del(image_rels, rel_id)
          ELSE /\ structure' = WithText(para, structure)
               /\ UNCHANGED <<image_data, image_counter, image_rels>>
    /\ wpos' = wpos + 1
    /\ UNCHANGED <<doc_body, doc_rels, wpc, wret>>
    /\ UNCHANGED <<dvars, cvars, bvars, avars, tvars>>

\* lines 119-176
WalkParagraph ==
    /\ Looping("CT_P")
    /\ LET para == At(doc_body, wpos)
           rel_id == ImageOf(para, image_rels, doc_rels)
           image_ref_id == ImageRefId(image_counter)
       IN IF rel_id # None
          THEN /\ image_data' = DictSet(image_data, image_ref_id,
                                        ImageRecord(rel_id, doc_rels,
                                                    Len(structure)))
               /\ structure' = Append(structure, ImageElement(image_ref_id))
               /\ image_counter' = image_counter + 1
               /\ image_rels' = Del(image_rels, rel_id)
          ELSE /\ structure' = WithText(para, structure)
               /\ UNCHANGED <<image_data, image_counter, image_rels>>
    /\ wpos' = wpos + 1
    /\ UNCHANGED <<doc_body, doc_rels, wpc, wret>>
    /\ UNCHANGED <<dvars, cvars, bvars, avars, tvars>>

\* lines 107-119: a node that is neither CT_Tbl nor CT_P is passed over
WalkOther ==
    /\ wpc = "loop"
    /\ wpos < Len(doc_body)
    /\ At(doc_body, wpos).kind \notin {"CT_Tbl", "CT_P"}
    /\ wpos' = wpos + 1
    /\ UNCHANGED <<doc_body, doc_rels, structure, image_data, image_counter,
                   image_rels, wpc, wret>>
    /\ UNCHANGED <<dvars, cvars, bvars, avars, tvars>>

\* lines 178-179: raise ValueError("Document vide")
WalkRaise ==
    /\ wpc = "loop"
    /\ wpos = Len(doc_body)
    /\ structure = <<>>
    /\ wpc' = "raised"
    /\ UNCHANGED <<doc_body, doc_rels, structure, image_data, image_counter,
                   image_rels, wpos, wret>>
    /\ UNCHANGED <<dvars, cvars, bvars, avars, tvars>>

\* faulty variant of WalkReturn: the result is returned without the check
\* for an empty structure
WalkReturnUnchecked ==
    /\ wpc = "loop"
    /\ wpos = Len(doc_body)
    /\ wpc' = "returned"
    /\ wret' = <<structure, image_data>>
    /\ UNCHANGED <<doc_body, doc_rels, structure, image_data, image_counter,
                   image_rels, wpos>>
    /\ UNCHANGED <<dvars, cvars, bvars, avars, tvars>>

\* line 181
WalkReturn ==
    /\ wpc = "loop"
    /\ wpos = Len(doc_body)
    /\ structure # <<>>
    /\ wpc' = "returned"
    /\ wret' = <<structure, image_data>>
    /\ UNCHANGED <<doc_body, doc_rels, structure, image_data, image_counter,
                   image_rels, wpos>>
    /\ UNCHANGED <<dvars, cvars, bvars, avars, tvars>>

WalkInit ==
    WalkStart /\ DistIdle /\ ClassIdle /\ BuildIdle /\ AnalyticsIdle /\ TableIdle

WalkNext ==
    \/ WalkTable
    \/ WalkParagraph
    \/ WalkOther
    \/ WalkRaise
    \/ WalkReturn

SpecWalk == WalkInit /\ [][WalkNext]_vars

----------------------------------------------------------------------------
(* json_builder.build_elementor_json *)

\* the longest structure list handed to the builder
MaxBuildElems == 3

\* the elements of the structure lists handed to the builder, in the shape
\* extract_document_structure gives them
BuildUniverse ==
    {[type |-> "h1", content |-> "Titre"],
     [type |-> "h3", content |-> "Partie"],
     [type |-> "p", content |-> "texte"],
     [type |-> "image", ref_id |-> <<"__IMAGE_", 1, "__">>],
     [type |-> "table",
      data |-> [rows |-> <<<<"Nom", "Age">>, <<"Zoe", "30">>>>,
                num_rows |-> 2, num_cols |-> 2, has_header |-> TRUE]]}

\* the image_data and image_urls arguments: the image is known to both
\* dictionaries or to none
ImageInputs ==
    {[image_info |-> <<>>, image_urls |-> <<>>],
     [image_info |-> [r \in {<<"__IMAGE_", 1, "__">>} |->
                          [data |-> "rId1", format |-> "PNG", width |-> 640,
                           height |-> 480, position |-> 0]],
      image_urls |-> [r \in {<<"__IMAGE_", 1, "__">>} |-> "/img/image_1.png"]]}

\* dict.get(key, default)
DictGet(d, k, default) == IF k \in DOMAIN d THEN d[k] ELSE default

\* generate_id, lines 11-13: random.choices draws 7 symbols out of 36 with
\* replacement and nothing compares the token with the earlier ones.  Tokens
\* are numbered in the order of their first appearance; a call returns a
\* token that was not drawn before or draws the token of the call before it
\* again.
GenerateIdOutcomes ==
    {ids_issued + 1} \cup (IF ids_issued > 0 THEN {last_id} ELSE {})

\* the bookkeeping of the tokens drawn so far
Issue(id) ==
    /\ ids_issued' = Max2(ids_issued, id)
    /\ last_id' = id

\* faulty variant of create_heading_widget: the level of the element is lost
create_heading_widget_h2(content, level, id) ==
    [id |-> id,
     elType |-> "widget",
     settings |-> [title |-> content, header_size |-> "h2"],
     elements |-> <<>>,
     widgetType |-> "heading"]

\* lines 66-77
create_heading_widget(content, level, id) ==
    [id |-> id,
     elType |-> "widget",
     settings |-> [title |-> content, header_size |-> level],
     elements |-> <<>>,
     widgetType |-> "heading"]

\* lines 80-90
create_text_widget(content, id) ==
    [id |-> id,
     elType |-> "widget",
     settings |-> [editor |-> content],
     elements |-> <<>>,
     widgetType |-> "text-editor"]

\* lines 93-116
create_image_widget(ref_id, urls, infos, id) ==
    LET image_url == DictGet(urls, ref_id, "")
        img_info == DictGet(infos, ref_id, <<>>)
        image == IF "width" \in DOMAIN img_info /\ "height" \in DOMAIN img_info
                 THEN [url |-> image_url, id |-> "",
                       width |-> img_info.width, height |-> img_info.height]
                 ELSE [url |-> image_url, id |-> ""]
    IN [id |-> id,
        elType |-> "widget",
        settings |-> [image |-> image, image_size |-> "full"],
        elements |-> <<>>,
        widgetType |-> "image"]

RECURSIVE CellParts(_, _, _)
\* lines 131-132, 137-138: one opening tag, text and closing tag per cell
CellParts(row, open, close) ==
    IF row = <<>> THEN <<>>
    ELSE <<open, row[1], close>> \o CellParts(Tail(row), open, close)

RECURSIVE RowParts(_, _, _)
\* lines 127-139: the parts of the rows from index i on
RowParts(rows, i, has_header) ==
    IF i >= Len(rows) THEN <<>>
    ELSE (IF i = 0 /\ has_header
          THEN <<"<thead><tr>">> \o CellParts(At(rows, i), "<th>", "</th>")
                   \o <<"</tr></thead><tbody>">>
          ELSE <<"<tr>">> \o CellParts(At(rows, i), "<td>", "</td>")
                   \o <<"</tr>">>)
         \o RowParts(rows, i + 1, has_header)

\* lines 119-159; the html is kept as the list of its parts, the style
\* attributes of the tags left out
create_table_widget(table_data, id) ==
    LET rows == IF "rows" \in DOMAIN table_data THEN table_data.rows ELSE <<>>
        has_header == IF "has_header" \in DOMAIN table_data
                      THEN table_data.has_header ELSE FALSE
        table_html == <<"<table>">> \o RowParts(rows, 0, has_header)
                          \o (IF has_header THEN <<"</tbody>">> ELSE <<>>)
                          \o <<"</table>">>
    IN [id |-> id,
        elType |-> "widget",
        settings |-> [editor |-> table_html],
        elements |-> <<>>,
        widgetType |-> "text-editor"]

HeadingTypes == {"h1", "h2", "h3", "h4", "h5", "h6"}

\* faulty variant of ColumnWidth: three columns get the width of two
ColumnWidthTwoTiers(n) == IF n = 1 THEN 10000 ELSE 5000

\* lines 183-188, in hundredths of a percent
ColumnWidth(n) ==
    IF n = 1 THEN 10000 ELSE IF n = 2 THEN 5000 ELSE 3333

\* lines 162-191: the call, which starts with the call of
\* distribute_elements
BuildStart ==
    /\ elements \in SeqsUpTo(BuildUniverse, MaxBuildElems)
    /\ num_columns \in ColumnCounts
    /\ strategy \in Strategies
    /\ distributed = None
    /\ idx = 0
    /\ col = 0
    /\ dpc = "call"
    /\ dret = None
    /\ \E inputs \in ImageInputs :
           /\ image_urls = inputs.image_urls
           /\ image_info = inputs.image_info
    /\ elementor_columns = <<>>
    /\ widgets = <<>>
    /\ bcol = 0
    /\ bitem = 0
    /\ ids_issued = 0
    /\ last_id = 0
    /\ bpc = "build"
    /\ bret = None

\* distribute_elements has returned distributed_elements and the loop over
\* it is at column c
AtColumn(c) ==
    /\ bpc = "build"
    /\ dpc = "done"
    /\ c \in DOMAIN dret

\* lines 196-218: one iteration of the loop over the elements of a column
BuildWidget ==
    /\ AtColumn(bcol)
    /\ bitem < Len(dret[bcol])
    /\ LET item == At(dret[bcol], bitem)
           item_type == item.type
       IN IF item_type \in HeadingTypes \cup {"p", "image", "table"}
          THEN \E id \in GenerateIdOutcomes :
                   /\ widgets' = Append(widgets,
                          CASE item_type \in HeadingTypes ->
                                   create_heading_widget(item.content,
                                                         item_type, id)
                            [] item_type = "p" ->
                                   create_text_widget(item.content, id)
                            [] item_type = "image" ->
                                   create_image_widget(item.ref_id, image_urls,
                                                       image_info, id)
                            [] item_type = "table" ->
                                   create_table_widget(item.data, id))
                   /\ Issue(id)
          ELSE UNCHANGED <<widgets, ids_issued, last_id>>
    /\ bitem' = bitem + 1
    /\ UNCHANGED <<image_urls, image_info, elementor_columns, bcol, bpc, bret>>
    /\ UNCHANGED <<dvars, cvars, wvars, avars, tvars>>

\* lines 193-194, 220-231: the column of the widgets is closed and appended
BuildColumn ==
    /\ AtColumn(bcol)
    /\ bitem = Len(dret[bcol])
    /\ \E id \in GenerateIdOutcomes :
           /\ elementor_columns' = Append(elementor_columns,
                  [id |-> id,
                   elType |-> "column",
                   settings |-> [_column_size |-> ColumnWidth(num_columns),
                                 _inline_size |-> None],
                   elements |-> widgets])
           /\ Issue(id)
    /\ widgets' = <<>>
    /\ bitem' = 0
    /\ bcol' = bcol + 1
    /\ UNCHANGED <<image_urls, image_info, bpc, bret>>
    /\ UNCHANGED <<dvars, cvars, wvars, avars, tvars>>

\* lines 233-246
BuildReturn ==
    /\ bpc = "build"
    /\ dpc = "done"
    /\ bcol \notin DOMAIN dret
    /\ \E id \in GenerateIdOutcomes :
           /\ bret' = [version |-> "0.4",
                       title |-> <<"Document importé (", num_columns,
                                   " colonne",
                                   IF num_columns > 1 THEN "s" ELSE "", ")">>,
                       type |-> "page",
                       content |-> <<[id |-> id,
                                      elType |-> "section",
                                      settings |-> <<>>,
                                      elements |-> elementor_columns]>>]
           /\ Issue(id)
    /\ bpc' = "returned"
    /\ UNCHANGED <<image_urls, image_info, elementor_columns, widgets, bcol,
                   bitem>>
    /\ UNCHANGED <<dvars, cvars, wvars, avars, tvars>>

BuildInit ==
    BuildStart /\ ClassIdle /\ WalkIdle /\ AnalyticsIdle /\ TableIdle

BuildNext ==
    \/ DistributeCall
    \/ AutoStep
    \/ SequentialStep
    \/ BalancedStep
    \/ DistributeReturn
    \/ BuildWidget
    \/ BuildColumn
    \/ BuildReturn

SpecBuild == BuildInit /\ [][BuildNext]_vars

----------------------------------------------------------------------------
(* analytics.Analytics and its use by app.py *)

\* the largest counter value the stats file is followed to
MaxTracked == 6

\* round((conversions / opens) * 100, 1), in tenths of a percent.  No
\* quotient lies halfway between two tenths while opens is below 16, where
\* the rounding of the float is the rounding to the nearest tenth.
Rate(conversions, opens) ==
    (2000 * conversions + opens) \div (2 * opens)

\* lines 92-105, in tenths of a percent
get_success_rate(conversions, opens) ==
    IF opens = 0 THEN 0 ELSE Rate(conversions, opens)

\* the documents a session uploads: two with content and an empty one, for
\* which extract_document_structure raises ValueError
Documents == {"rapport.docx", "cours.docx", "vide.docx"}

ValidDocuments == Documents \ {"vide.docx"}

\* app.py lines 345-372: the JSON text the pipeline of the Walker and the
\* builder makes of a document, kept as a token of that document
JsonOf(doc) == <<"elementor_json", doc>>

\* lines 34-45 and app.py lines 132-147: the fresh stats file; no session of
\* the app is open
AnalyticsStart ==
    /\ app_opens = 0
    /\ files_generated = 0
    /\ analytics_tracked = FALSE
    /\ success_rate = <<>>
    /\ converted = FALSE
    /\ json_data = <<>>
    /\ uploaded_file = None
    /\ ui_ready = FALSE
    /\ app_error = None

\* app.py lines 146-152 in a run of the script whose session has not
\* tracked its opening yet, with track_app_open (lines 126-129) and
\* increment_opens (lines 65-69).  The call is made outside any try: if the
\* collaborator raises, the run of the script ends there, before the flag is
\* set and before the page with the Convert button is built.
AppOpen ==
    /\ ~analytics_tracked
    /\ app_opens < MaxTracked
    /\ \E raises \in BOOLEAN :
           IF raises
           THEN /\ ui_ready' = FALSE
                /\ app_error' = "track_app_open"
                /\ UNCHANGED <<app_opens, analytics_tracked>>
           ELSE /\ app_opens' = app_opens + 1
                /\ analytics_tracked' = TRUE
                /\ ui_ready' = TRUE
                /\ app_error' = None
    /\ UNCHANGED <<files_generated, success_rate, converted, json_data,
                   uploaded_file>>
    /\ UNCHANGED <<dvars, cvars, wvars, bvars, tvars>>

\* app.py lines 325-410: the Convert button of the built page is pressed on
\* an uploaded document.  The try block sets json_data and converted before
\* it calls track_conversion (lines 132-135, increment_conversions lines
\* 71-75); the except clause reports any exception and leaves the session
\* state as it is.
AppConvert ==
    /\ ui_ready
    /\ files_generated < MaxTracked
    /\ \E doc \in Documents, raises \in BOOLEAN :
           /\ uploaded_file' = doc
           /\ IF doc \notin ValidDocuments
              THEN /\ converted' = FALSE
                   /\ app_error' = "Document vide"
                   /\ UNCHANGED <<json_data, files_generated>>
              ELSE /\ json_data' = JsonOf(doc)
                   /\ converted' = TRUE
                   /\ IF raises
                      THEN /\ app_error' = "track_conversion"
                           /\ UNCHANGED files_generated
                      ELSE /\ app_error' = None
                           /\ files_generated' = files_generated + 1
    /\ UNCHANGED <<app_opens, analytics_tracked, success_rate, ui_ready>>
    /\ UNCHANGED <<dvars, cvars, wvars, bvars, tvars>>

\* app.py line 223: the sidebar of the built page asks for the summary
\* (lines 148-164), which calls get_success_rate
AppSummary ==
    /\ ui_ready
    /\ success_rate' = <<get_success_rate(files_generated, app_opens)>>
    /\ UNCHANGED <<app_opens, files_generated, analytics_tracked, converted,
                   json_data, uploaded_file, ui_ready, app_error>>
    /\ UNCHANGED <<dvars, cvars, wvars, bvars, tvars>>

\* the session ends and its session_state is gone
AppClose ==
    /\ analytics_tracked \/ app_error # None
    /\ analytics_tracked' = FALSE
    /\ converted' = FALSE
    /\ json_data' = <<>>
    /\ uploaded_file' = None
    /\ ui_ready' = FALSE
    /\ app_error' = None
    /\ UNCHANGED <<app_opens, files_generated, success_rate>>
    /\ UNCHANGED <<dvars, cvars, wvars, bvars, tvars>>

AnalyticsInit ==
    AnalyticsStart /\ DistIdle /\ ClassIdle /\ WalkIdle /\ BuildIdle /\ TableIdle

AnalyticsNext ==
    \/ AppOpen
    \/ AppConvert
    \/ AppSummary
    \/ AppClose

SpecAnalytics == AnalyticsInit /\ [][AnalyticsNext]_vars

----------------------------------------------------------------------------
(* Properties of distribute_elements *)

Count(s, e) == Cardinality({i \in DOMAIN s : s[i] = e})

RECURSIVE CountInColumns(_, _, _)
\* occurrences of e in the columns 0..n-1 of d
CountInColumns(d, n, e) ==
    IF n = 0 THEN 0 ELSE Count(d[n - 1], e) + CountInColumns(d, n - 1, e)

RECURSIVE ConcatColumns(_, _)
\* column 0 followed by column 1, ... up to column n-1
ConcatColumns(d, n) ==
    IF n = 0 THEN <<>> ELSE ConcatColumns(d, n - 1) \o d[n - 1]

ColumnItems(d) == UNION {{d[c][i] : i \in DOMAIN d[c]} : c \in DOMAIN d}

Returned == dpc = "done"

\* C1: for the strategies auto, sequential and balanced and 1..3 columns,
\* the returned columns hold every input element exactly as often as the
\* input list does, and hold nothing that is not in the input.
C1_PartitionComplete ==
    (Returned /\ strategy \in Strategies) =>
        /\ DOMAIN dret = 0..(num_columns - 1)
        /\ \A e \in ElemUniverse \cup ColumnItems(dret) :
               CountInColumns(dret, num_columns, e) = Count(elements, e)

C1_Witness ==
    /\ Returned
    /\ strategy \in Strategies
    /\ num_columns = 3
    /\ Len(elements) >= 4
    /\ \E i, j \in DOMAIN elements : i # j /\ elements[i] = elements[j]
    /\ \A c \in DOMAIN dret : dret[c] # <<>>

\* C2: under auto with more than one column every loop iteration takes the
\* next input element; an h1 or h2 is appended to column 0, any other
\* element to the column with the fewest elements at that moment, the
\* lowest index winning a tie; no other column changes.
C2_AutoPlacement ==
    [][(dpc = "auto" /\ idx' # idx) =>
          LET e == At(elements, idx)
              n == num_columns
              AppendedTo(c) ==
                  /\ distributed'[c] = Append(distributed[c], e)
                  /\ \A j \in (0..(n - 1)) \ {c} :
                         distributed'[j] = distributed[j]
          IN /\ idx' = idx + 1
             /\ IF e.type \in {"h1", "h2"}
                THEN AppendedTo(0)
                ELSE \E c \in 0..(n - 1) :
                        /\ AppendedTo(c)
                        /\ \A j \in 0..(n - 1) :
                               Len(distributed[c]) <= Len(distributed[j])
                        /\ \A j \in 0..(n - 1) :
                               Len(distributed[j]) = Len(distributed[c])
                                   => c <= j]_vars

C2_Witness ==
    /\ dpc = "auto"
    /\ num_columns = 3
    /\ idx >= 4
    /\ Len(distributed[0]) >= 3
    /\ distributed[0][Len(distributed[0])].type \in {"h1", "h2"}
    /\ Len(distributed[1]) = 1
    /\ distributed[1][1].type \notin {"h1", "h2"}

\* C3: under sequential with more than one column, column c holds
\* floor(total/num_columns) elements plus one if c < total mod num_columns,
\* and the columns read in order give back the input list.
C3_SequentialRuns ==
    (Returned /\ strategy = "sequential" /\ num_columns > 1) =>
        /\ DOMAIN dret = 0..(num_columns - 1)
        /\ \A c \in 0..(num_columns - 1) :
               Len(dret[c]) =
                   (Len(elements) \div num_columns)
                     + (IF c < Len(elements) % num_columns THEN 1 ELSE 0)
        /\ ConcatColumns(dret, num_columns) = elements

C3_Witness ==
    /\ Returned
    /\ strategy = "sequential"
    /\ num_columns = 3
    /\ Len(elements) = 5
    /\ Len(dret[0]) = 2 /\ Len(dret[1]) = 2 /\ Len(dret[2]) = 1
    /\ elements[1] # elements[2]

\* C4: under balanced with more than one column, the element at 0-based
\* input position i is in column i mod num_columns, and every column keeps
\* the input order.
C4_BalancedRoundRobin ==
    (Returned /\ strategy = "balanced" /\ num_columns > 1) =>
        /\ DOMAIN dret = 0..(num_columns - 1)
        /\ \A c \in 0..(num_columns - 1) :
              LET positions == {i \in 0..(Len(elements) - 1) :
                                   i % num_columns = c}
              IN /\ Len(dret[c]) = Cardinality(positions)
                 /\ \A k \in 0..(Len(dret[c]) - 1) :
                        At(dret[c], k) = At(elements, c + k * num_columns)

C4_Witness ==
    /\ Returned
    /\ strategy = "balanced"
    /\ num_columns = 2
    /\ Len(elements) = 5
    /\ Len(dret[0]) = 3 /\ Len(dret[1]) = 2
    /\ Cardinality({elements[i] : i \in DOMAIN elements}) >= 3

\* C5: with one column the result is a single column equal to the input
\* list, whatever the strategy argument is, known or not.
C5_SingleColumn ==
    (Returned /\ num_columns = 1) =>
        /\ DOMAIN dret = {0}
        /\ dret[0] = elements

C5_Witness ==
    /\ Returned
    /\ num_columns = 1
    /\ strategy \notin Strategies
    /\ Len(elements) >= 2
    /\ dret[0] = elements

----------------------------------------------------------------------------
(* Properties of the classifiers *)

HDReturned == hd_ret # <<>>

WPReturned == wp_ret # None

Kinds == {"h1", "h2", "h3", "h4", "h5", "h6", "p"}

\* C6: the kind returned by HeadingDetector.detect_heading_level is one of
\* h1..h6 or p, and the returned confidence lies between 0 and 1 (0 and 100
\* hundredths).  The code returns negative confidences.
C6_KindAndConfidence ==
    HDReturned =>
        /\ hd_ret[1] \in Kinds
        /\ hd_ret[2] >= 0
        /\ hd_ret[2] <= 100

\* the length of the longest prefix of s made of digits and dots
NumberingEnd(s) ==
    IF \E i \in DOMAIN s : s[i] \notin Digits \cup {"."}
    THEN (CHOOSE i \in DOMAIN s :
              /\ s[i] \notin Digits \cup {"."}
              /\ \A j \in 1..(i - 1) : s[j] \in Digits \cup {"."}) - 1
    ELSE Len(s)

\* s begins with digits, optionally followed by ".digits" groups, then a
\* whitespace character
HasNumericPrefix(s) ==
    LET n == NumberingEnd(s)
    IN /\ n >= 1
       /\ s[1] \in Digits
       /\ s[n] \in Digits
       /\ \A i \in 1..(n - 1) : ~(s[i] = "." /\ s[i + 1] = ".")
       /\ n + 1 <= Len(s)
       /\ s[n + 1] \in Whitespace

\* the number of dots of the numeric prefix of s
PrefixDots(s) == Cardinality({i \in 1..NumberingEnd(s) : s[i] = "."})

\* some character after the numeric prefix is not whitespace
HasBodyAfterPrefix(s) ==
    \E i \in (NumberingEnd(s) + 1)..Len(s) : s[i] \notin Whitespace

\* the level and confidence C7 states for a numeric prefix with k dots
NumericPrefixResult(k) ==
    /\ hd_ret[1] = Levels[IF k + 1 < 6 THEN k + 1 ELSE 6]
    /\ hd_ret[2] >= 50

C8_StyleDecides ==
    WPReturned =>
        /\ \A n \in 1..6 :
               arg_style = <<"H", "e", "a", "d", "i", "n", "g", " ">> \o <<<<"1", "2", "3", "4", "5", "6">>[n]>> => wp_ret = Levels[n]
        /\ arg_style = <<"T", "i", "t", "l", "e">> => wp_ret = "h1"

C8_Witness ==
    /\ WPReturned
    /\ arg_style = <<"H", "e", "a", "d", "i", "n", "g", " ", "4">>
    /\ wp_ret = "h4"
    /\ HasNumericPrefix(arg_text)
    /\ HasBodyAfterPrefix(arg_text)
    /\ PrefixDots(arg_text) = 1
    /\ arg_text[Len(arg_text)] = "."

----------------------------------------------------------------------------
(* Properties of extract_document_structure *)

\* C9: the run ends with the empty-document error exactly when the
\* structure list is empty once every body node has been traversed, and
\* then returns neither structure nor image table; a normal return always
\* carries a non-empty structure list.
C9_EmptyDocumentError ==
    /\ wpc = "raised" =>
           /\ wpos = Len(doc_body)
           /\ structure = <<>>
           /\ wret = None
    /\ wpc = "returned" =>
           /\ wpos = Len(doc_body)
           /\ structure # <<>>
           /\ wret[1] = structure

C9_Witness ==
    /\ wpc = "raised"
    /\ Len(doc_body) >= 2
    /\ \E i \in DOMAIN doc_body :
           /\ doc_body[i].kind = "CT_P"
           /\ doc_body[i].pic
           /\ doc_body[i].embed \in image_rels

\* the structure element e is what the body node gives, images being the
\* image table
ElementOf(e, node, images) ==
    CASE e.type = "table" ->
             /\ node.kind = "CT_Tbl"
             /\ Len(e.data.rows) = Len(node.rows)
             /\ \A r \in DOMAIN node.rows :
                    Len(e.data.rows[r]) = Len(node.rows[r])
      [] e.type = "image" ->
             /\ node.kind = "CT_P"
             /\ node.pic
             /\ e.ref_id \in DOMAIN images
             /\ images[e.ref_id].data \in {node.embed, node.link}
      [] OTHER ->
             /\ node.kind = "CT_P"
             /\ \E a, b \in DOMAIN node.text :
                    /\ e.content = SubSeq(node.text, a, b)
                    /\ node.text[a] \notin Whitespace
                    /\ node.text[b] \notin Whitespace
                    /\ \A i \in DOMAIN node.text :
                           (i < a \/ i > b) => node.text[i] \in Whitespace

\* the structure list s lists elements of the body nodes in node order, at
\* most one per node
InNodeOrder(s, body, images) ==
    \E f \in [DOMAIN s -> DOMAIN body] :
        /\ \A i, j \in DOMAIN s : i < j => f[i] < f[j]
        /\ \A i \in DOMAIN s : ElementOf(s[i], body[f[i]], images)

\* C10: every body node adds at most one element to the structure list:
\* one for a table, for a paragraph whose image is extracted and for a
\* paragraph with non-empty text, none for an empty paragraph; the list only
\* grows at its end; the returned list is in the order of the body nodes.
C10_OneElementPerNode ==
    /\ [][(wpc = "loop" /\ wpos' # wpos) =>
            LET node == At(doc_body, wpos)
                grown == Len(structure') - Len(structure)
                image == DOMAIN image_data' # DOMAIN image_data
                emits == \/ node.kind = "CT_Tbl"
                         \/ /\ node.kind = "CT_P"
                            /\ \/ image
                               \/ \E i \in DOMAIN node.text :
                                      node.text[i] \notin Whitespace
            IN /\ wpos' = wpos + 1
               /\ grown = (IF emits THEN 1 ELSE 0)
               /\ emits => ElementOf(structure'[Len(structure')], node, image_data')
               /\ emits /\ node.kind = "CT_P" =>
                      (image <=> structure'[Len(structure')].type = "image")]_vars
    /\ [][SubSeq(structure', 1, Len(structure)) = structure]_vars
    /\ [](wpc = "returned" => InNodeOrder(wret[1], doc_body, wret[2]))

C10_Witness ==
    /\ wpc = "returned"
    /\ Len(doc_body) >= 3
    /\ Len(structure) = 2
    /\ structure[1].type = "image"
    /\ structure[2].type \notin {"image", "table"}
    /\ doc_body[1].kind = "CT_P"
    /\ doc_body[1].text # <<>>
    /\ \E i \in DOMAIN doc_body :
           doc_body[i].kind = "CT_P" /\ Strip(doc_body[i].text) = <<>>
                                     /\ ~doc_body[i].pic

\* the reference ids of the ImageRef elements of s, in list order
RECURSIVE ImageRefs(_)
ImageRefs(s) ==
    IF s = <<>> THEN <<>>
    ELSE IF s[1].type = "image"
         THEN <<s[1].ref_id>> \o ImageRefs(Tail(s))
         ELSE ImageRefs(Tail(s))

\* a paragraph of the traversed part of the body held a picture whose
\* decoding failed
DecodeFailedBefore(n) ==
    \E i \in 1..n :
        /\ doc_body[i].kind = "CT_P"
        /\ doc_body[i].pic
        /\ doc_body[i].embed \in RelIds
        /\ doc_rels[doc_body[i].embed].is_image
        /\ ~doc_rels[doc_body[i].embed].decodable

Built == bpc = "returned"

\* the section of the returned document
SectionOf(doc) == doc.content[1]

\* the widget w carries the payload of the structure element e
CarriesPayload(w, e) ==
    CASE e.type \in HeadingTypes -> /\ "title" \in DOMAIN w.settings
                                    /\ w.settings.title = e.content
      [] e.type = "p" -> /\ "editor" \in DOMAIN w.settings
                         /\ w.settings.editor = e.content
      [] e.type = "image" ->
             /\ "image" \in DOMAIN w.settings
             /\ w.settings.image.url = DictGet(image_urls, e.ref_id, "")
      [] e.type = "table" ->
             /\ "editor" \in DOMAIN w.settings
             /\ \A r \in DOMAIN e.data.rows : \A c \in DOMAIN e.data.rows[r] :
                    \E k \in DOMAIN w.settings.editor :
                        w.settings.editor[k] = e.data.rows[r][c]
      [] OTHER -> FALSE

\* C12: the returned document holds exactly one section, the section holds
\* one column per entry of the partition distribute_elements returned, the
\* c-th column made of the c-th entry, so num_columns columns, and every
\* column has the size 100, 50 or 33.33 for 1, 2 or 3 columns.
C12_OneSectionColumnsOfPartition ==
    Built =>
        LET section == SectionOf(bret)
            columns == section.elements
        IN /\ Len(bret.content) = 1
           /\ section.elType = "section"
           /\ Len(columns) = Cardinality(DOMAIN dret)
           /\ Len(columns) = num_columns
           /\ \A c \in DOMAIN dret :
                  /\ At(columns, c).elType = "column"
                  /\ Len(At(columns, c).elements) = Len(dret[c])
                  /\ \A i \in DOMAIN dret[c] :
                         CarriesPayload(At(columns, c).elements[i], dret[c][i])
                  /\ At(columns, c).settings._column_size =
                         CASE num_columns = 1 -> 10000
                           [] num_columns = 2 -> 5000
                           [] num_columns = 3 -> 3333

C12_Witness ==
    /\ Built
    /\ num_columns = 3
    /\ Len(SectionOf(bret).elements) = 3
    /\ \A c \in DOMAIN dret : Len(dret[c]) = 1
    /\ dret[0][1].type = "h1" /\ dret[1][1].type = "table"
    /\ SectionOf(bret).elements[3].settings._column_size = 3333

\* the widget type the structure element e is turned into
WidgetTypeOf(e) ==
    CASE e.type \in HeadingTypes -> "heading"
      [] e.type \in {"p", "table"} -> "text-editor"
      [] e.type = "image" -> "image"

\* C13: every column of the returned document holds exactly one widget per
\* structure element assigned to it, in the same order: a heading widget
\* whose header_size is the level for h1..h6, a text-editor widget for p and
\* for table, an image widget for image.
C13_OneWidgetPerElement ==
    Built =>
        \A c \in DOMAIN dret :
            LET ws == At(SectionOf(bret).elements, c).elements
            IN /\ Len(ws) = Len(dret[c])
               /\ \A i \in DOMAIN dret[c] :
                      /\ ws[i].elType = "widget"
                      /\ ws[i].widgetType = WidgetTypeOf(dret[c][i])
                      /\ dret[c][i].type \in HeadingTypes =>
                             ws[i].settings.header_size = dret[c][i].type

\* the 1-column build of [h1, p, image]
C13_Witness ==
    /\ Built
    /\ num_columns = 1
    /\ Len(elements) = 3
    /\ elements[1].type = "h1" /\ elements[2].type = "p"
    /\ elements[3].type = "image"
    /\ Len(bret.content) = 1
    /\ Len(SectionOf(bret).elements) = 1
    /\ SectionOf(bret).elements[1].settings._column_size = 10000
    /\ LET ws == SectionOf(bret).elements[1].elements
       IN /\ Len(ws) = 3
          /\ ws[1].widgetType = "heading" /\ ws[1].settings.header_size = "h1"
          /\ ws[2].widgetType = "text-editor"
          /\ ws[3].widgetType = "image"

RECURSIVE WidgetIds(_)
\* the ids of the widgets of a list of columns
WidgetIds(columns) ==
    IF columns = <<>> THEN <<>>
    ELSE [i \in DOMAIN columns[1].elements |-> columns[1].elements[i].id]
             \o WidgetIds(Tail(columns))

\* the ids of the section, of the columns and of the widgets of a document
IdsOf(doc) ==
    <<SectionOf(doc).id>>
        \o [c \in DOMAIN SectionOf(doc).elements |->
               SectionOf(doc).elements[c].id]
        \o WidgetIds(SectionOf(doc).elements)

\* C14: the ids of the section, of all columns and of all widgets of one
\* returned document are pairwise distinct.
C14_IdsDistinct ==
    Built =>
        LET ids == IdsOf(bret)
        IN \A i, j \in DOMAIN ids : i # j => ids[i] # ids[j]

\* a short title-like text: at most 50 characters after stripping, no
\* numeric prefix, no chapter prefix, not all uppercase, no terminal
\* punctuation (so not a question either)
ShortTitleLike(raw) ==
    LET s == Strip(raw)
    IN /\ Len(s) >= 1
       /\ Len(s) <= 50
       /\ ~HasNumericPrefix(s)
       /\ ~ChapterMatch(s)
       /\ ~IsUpper(s)
       /\ ~EndsWithAny(s, TerminalPunctuation)

\* C15: HeadingDetector.detect_heading_level classifies every short
\* title-like text as h3, the level the test table of the module expects for
\* "Introduction".  The code returns h2 for these texts.
C15_ShortTitleIsH3 ==
    (HDReturned /\ ShortTitleLike(arg_text)) => hd_ret[1] = "h3"

\* C16: starting from a fresh stats file, files_generated never exceeds
\* app_opens and every rate get_success_rate returns lies between 0 and 100
\* (0 and 1000 tenths).  One session that converts twice breaks both.
C16_RateWithinBounds ==
    /\ files_generated <= app_opens
    /\ success_rate # <<>> =>
           (success_rate[1] >= 0 /\ success_rate[1] <= 1000)

\* the relationship ids attached to the ImageRef elements of s through the
\* image table
AttachedRels(s, images) ==
    {images[s[i].ref_id].data : i \in {j \in DOMAIN s : s[j].type = "image"}}

\* the loop is at a paragraph with a picture whose r:embed id was attached
\* to an ImageRef before
AtConsumedEmbed ==
    /\ Looping("CT_P")
    /\ At(doc_body, wpos).pic
    /\ At(doc_body, wpos).embed \in AttachedRels(structure, image_data)

\* the step handles the paragraph the loop is at as a paragraph without
\* image: nothing changes in the image table, the counter and the pool, and
\* the stripped text is emitted if it is not empty
HandledWithoutImage ==
    /\ image_data' = image_data
    /\ image_counter' = image_counter
    /\ image_rels' = image_rels
    /\ structure' = WithText(At(doc_body, wpos), structure)
    /\ wpos' = wpos + 1

\* no relationship id is attached to two ImageRef elements, and the attached
\* ids have left the pool
NoRelAttachedTwice ==
    /\ \A i, j \in DOMAIN structure :
           (i < j /\ structure[i].type = "image" /\ structure[j].type = "image")
               => image_data[structure[i].ref_id].data
                      # image_data[structure[j].ref_id].data
    /\ AttachedRels(structure, image_data) \cap image_rels = {}

\* C17 as stated: no relationship id is attached to two ImageRef elements,
\* attached ids have left the pool, and a paragraph whose r:embed id is
\* already consumed emits no ImageRef and is handled as a paragraph without
\* image.  The r:link id of such a paragraph can still yield an ImageRef.
C17_ConsumedParagraphIsText ==
    /\ []NoRelAttachedTwice
    /\ [][AtConsumedEmbed => HandledWithoutImage]_vars

\* C17, amended: no relationship id is attached to two ImageRef elements
\* and attached ids have left the pool; a paragraph whose r:embed id is
\* already consumed emits no ImageRef for that id, and it is handled as a
\* paragraph without image unless its r:link id, tried next, is still in
\* the pool and decodes, in which case the ImageRef of that id is emitted.
C17_ConsumedIdNotReused ==
    /\ []NoRelAttachedTwice
    /\ [][AtConsumedEmbed =>
            LET para == At(doc_body, wpos)
            IN IF Extractable(para.link, image_rels, doc_rels)
               THEN /\ Len(structure') = Len(structure) + 1
                    /\ structure'[Len(structure')].type = "image"
                    /\ image_data'[structure'[Len(structure')].ref_id].data
                           = para.link
                    /\ para.link # para.embed
                    /\ image_rels' = image_rels \ {para.link}
               ELSE HandledWithoutImage]_vars

\* a second paragraph with the r:embed id of the first has given its text
C17_Witness ==
    /\ wpc = "returned"
    /\ Len(doc_body) >= 2
    /\ Len(structure) >= 2
    /\ structure[1].type = "image"
    /\ doc_body[2].kind = "CT_P"
    /\ doc_body[2].pic
    /\ doc_body[2].embed = image_data[structure[1].ref_id].data
    /\ structure[2].type \in {"h1", "h2", "h3", "h4", "h5", "h6", "p"}

\* the loop is at a paragraph with a picture whose r:embed relationship is
\* in the pool and cannot be decoded
AtFailingDecode ==
    /\ Looping("CT_P")
    /\ At(doc_body, wpos).pic
    /\ At(doc_body, wpos).embed \in image_rels
    /\ ~doc_rels[At(doc_body, wpos).embed].decodable

\* no entry of the image table and no ImageRef is made of a payload that
\* cannot be decoded
NoUndecodedImage ==
    /\ \A ref \in DOMAIN image_data : doc_rels[image_data[ref].data].decodable
    /\ \A i \in DOMAIN structure :
           structure[i].type = "image" => structure[i].ref_id \in DOMAIN image_data

\* C18 as stated: when the decoding of a paragraph's image fails the run
\* goes on, no ImageRef and no image-table entry is made, the counter and
\* the pool keep their values and the paragraph is handled as a paragraph
\* without image.  The r:link id of the paragraph is still tried and can
\* yield an image.
C18_FailedDecodeIsText ==
    /\ []NoUndecodedImage
    /\ [][AtFailingDecode => (HandledWithoutImage /\ wpc' = "loop")]_vars

\* C18, amended: when the decoding of a paragraph's r:embed image fails the
\* run goes on and that image gets no ImageRef and no image-table entry; the
\* r:link id of the paragraph is tried next; if it yields no image either,
\* the counter and the pool keep their values and the paragraph is handled
\* as a paragraph without image; otherwise the ImageRef of the r:link image
\* is emitted.  The traversal continues with the next node in both cases.
C18_FailedDecodeSkipsImage ==
    /\ []NoUndecodedImage
    /\ [][AtFailingDecode =>
            LET para == At(doc_body, wpos)
            IN /\ wpc' = "loop"
               /\ wpos' = wpos + 1
               /\ para.embed \in image_rels'
               /\ IF Extractable(para.link, image_rels, doc_rels)
                  THEN /\ Len(structure') = Len(structure) + 1
                       /\ structure'[Len(structure')].type = "image"
                       /\ image_data'[structure'[Len(structure')].ref_id].data
                              = para.link
                       /\ image_counter' = image_counter + 1
                  ELSE HandledWithoutImage]_vars

\* the decoding of the first paragraph's image failed, its text was emitted
\* and the next node was handled
C18_Witness ==
    /\ wpc = "returned"
    /\ Len(doc_body) >= 2
    /\ doc_body[1].kind = "CT_P"
    /\ doc_body[1].pic
    /\ doc_body[1].embed \in RelIds
    /\ doc_rels[doc_body[1].embed].is_image
    /\ ~doc_rels[doc_body[1].embed].decodable
    /\ doc_body[1].link = None
    /\ Len(structure) >= 2
    /\ structure[1].type \in {"h1", "h2", "h3", "h4", "h5", "h6", "p"}
    /\ image_counter = 1

RECURSIVE StrippedLen(_)
\* the number of characters of the row's cells between their outer blanks
StrippedLen(row) ==
    IF row = <<>> THEN 0
    ELSE Cardinality({i \in DOMAIN row[1] :
                         \E a, b \in DOMAIN row[1] :
                             /\ a <= i /\ i <= b
                             /\ row[1][a] \notin Whitespace
                             /\ row[1][b] \notin Whitespace})
         + StrippedLen(Tail(row))

\* C19: has_header is true if and only if the table has at least 2 rows,
\* the average cell-text length of row 0 is greater than 0 and strictly less
\* than 1.5 times the average of row 1 (the averages a/n and b/m compared
\* exactly: 2*a*m < 3*b*n).  The float comparison of the code is true for
\* some rows whose averages are in the ratio 1.5 exactly.
C19_HeaderIff ==
    table_ret # <<>> =>
        (table_ret[1].has_header <=>
            /\ Len(table_rows) >= 2
            /\ table_rows[1] # <<>>
            /\ StrippedLen(table_rows[1]) > 0
            /\ table_rows[2] # <<>>
            /\ 2 * StrippedLen(table_rows[1]) * Len(table_rows[2])
                   < 3 * StrippedLen(table_rows[2]) * Len(table_rows[1]))

\* the level the criteria other than the numbering propose for the stripped
\* text s, None if none does: h1 for a chapter prefix, h2 for at most 50
\* characters, h2 for capitals only under 80 characters, h3 for a question
CandidateLevel(s) ==
    IF ChapterMatch(s) THEN "h1"
    ELSE IF Len(s) <= 50 THEN "h2"
    ELSE IF IsUpper(s) /\ Len(s) < 80 THEN "h2"
    ELSE IF s[Len(s)] = "?" THEN "h3"
    ELSE None

\* C20: for a text without numeric prefix, HeadingDetector.detect_heading_level
\* returns the candidate level, or h3 when there is none, if the clamped
\* confidence is above 0.35 (35 hundredths), and p if it is 0.35 or less;
\* the confidence is returned with it and is at most 1.
C20_ThresholdDecides ==
    HDReturned =>
        LET s == Strip(arg_text)
        IN (s # <<>> /\ ~HasNumericPrefix(s)) =>
               /\ hd_ret[2] <= 100
               /\ IF hd_ret[2] > 35
                  THEN hd_ret[1] = (IF CandidateLevel(s) # None
                                    THEN CandidateLevel(s) ELSE "h3")
                  ELSE hd_ret[1] = "p"

\* a text without prefix and without candidate level is returned as h3
C20_Witness ==
    /\ HDReturned
    /\ Strip(arg_text) # <<>>
    /\ ~HasNumericPrefix(Strip(arg_text))
    /\ CandidateLevel(Strip(arg_text)) = None
    /\ hd_ret[2] > 35
    /\ hd_ret[1] = "h3"

\* what the length signal adds for a text of L characters: the tiers are
\* tried in the order <= 100 (split at 50), <= 80, <= 120, so the lengths
\* 51..100 are all taken by the first tier and none reaches the second
LengthPoints(L) ==
    IF L <= 50 THEN 30
    ELSE IF L <= 100 THEN 20
    ELSE IF L <= 120 THEN 5
    ELSE 0

\* what the signals other than the length add for the stripped text s
OtherPoints(s) ==
    (IF HasNumericPrefix(s) THEN 90 ELSE 0)
    + (IF ChapterMatch(s) THEN 80 ELSE 0)
    + (IF EndsWithAny(s, TerminalPunctuation) THEN -30 ELSE 20)
    + (IF \E keyword \in SECTION_KEYWORDS : Contains(Lower(s), keyword)
       THEN 15 ELSE 0)
    + (IF s[1] \in UpperSet THEN 10 ELSE 0)
    + (IF IsUpper(s) /\ Len(s) < 80 THEN 40 ELSE 0)
    + (IF s[Len(s)] = "?" THEN 15 ELSE 0)

\* C21: the length signal adds 0.3 for at most 50 characters and proposes
\* h2 if no level is set, adds 0.2 for 51..100 characters, 0.05 for 101..120
\* and nothing above 120; the tier of 80 has its own branch, which no length
\* reaches behind the tier of 100.  The returned confidence is the clamped
\* sum of these points and of the other signals (raised to 0.5 for a
\* numeric prefix).
C21_LengthTiers ==
    HDReturned =>
        LET s == Strip(arg_text)
            total == Min2(LengthPoints(Len(s)) + OtherPoints(s), 100)
        IN s # <<>> =>
               /\ hd_ret[2] = (IF HasNumericPrefix(s) THEN Max2(total, 50)
                               ELSE total)
               /\ (Len(s) <= 50 /\ ~HasNumericPrefix(s) /\ ~ChapterMatch(s)
                       /\ hd_ret[2] > 35)
                      => hd_ret[1] = "h2"
               /\ LengthCriterion(Len(s)).score = LengthPoints(Len(s))
               /\ LengthCriterion(Len(s)).level =
                      (IF Len(s) <= 50 THEN "h2" ELSE None)

\* a text of 51..80 characters has got the 0.2 of the first tier, not the
\* 0.15 of the tier of 80
C21_Witness ==
    /\ HDReturned
    /\ Len(Strip(arg_text)) > 50
    /\ Len(Strip(arg_text)) <= 80
    /\ ~HasNumericPrefix(Strip(arg_text))
    /\ OtherPoints(Strip(arg_text)) = 20
    /\ hd_ret = <<"h3", 40>>

\* C22: for a non-empty paragraph text whose style name gives no level (no
\* "Heading N", no "Title"), the kind word_processor.detect_heading_level
\* gives the element is the kind HeadingDetector.detect_heading_level
\* returns for the same text.  The Walker has its own rules instead.
C22_WalkerUsesScoring ==
    (WPReturned /\ Strip(arg_text) # <<>> /\ StyleLevel(arg_style) = None)
        => wp_ret = HD_detect_heading_level(arg_text).kind

RECURSIVE AutoPartition(_, _, _)
\* the columns d after the auto strategy has placed the elements els
AutoPartition(els, n, d) ==
    IF els = <<>> THEN d
    ELSE AutoPartition(Tail(els), n,
             [d EXCEPT ![AutoTarget(els[1], d, n)] = Append(@, els[1])])

\* C23: with more than one column and a strategy other than sequential and
\* balanced, distribute_elements returns the partition the auto strategy
\* gives for the same elements.  For a strategy it does not know the code
\* returns empty columns.
C23_UnknownStrategyIsAuto ==
    (Returned /\ num_columns > 1 /\ strategy \notin {"sequential", "balanced"})
        => dret = AutoPartition(elements, num_columns,
                                EmptyColumns(num_columns))

\* C24: a failure of the analytics collaborator has no effect on the
\* conversion: after track_app_open has raised, the page with the conversion
\* step is still built, and a conversion of a valid document during which
\* track_conversion raises still ends with converted set and the JSON of
\* the document.  The code stops the run of the script when track_app_open
\* raises.
C24_AnalyticsFailureHarmless ==
    /\ app_error = "track_app_open" => ui_ready
    /\ app_error = "track_conversion" =>
           (converted /\ json_data = JsonOf(uploaded_file))

\* the keys of the image table images are the reference ids of the ImageRef
\* elements of the list s, each of them once, and every record holds the
\* 0-based index of its ImageRef in s
ImageTableMatches(s, images) ==
    LET refs == {i \in DOMAIN s : s[i].type = "image"}
    IN /\ DOMAIN images = {s[i].ref_id : i \in refs}
       /\ \A i, j \in refs : i # j => s[i].ref_id # s[j].ref_id
       /\ \A i \in refs : images[s[i].ref_id].position = i - 1

====
